---- MODULE Spec2Model ----
(***************************************************************************)
(* Silkify: the in-memory Record Store (server/storage.ts), the two-stage  *)
(* transformation pipeline (server/openai.ts), the HTTP routes             *)
(* (server/routes.ts) and the client-side upload validation                *)
(* (client/src/components/ImageUploader.tsx).                              *)
(*                                                                         *)
(* Text is modelled as a sequence of tokens: a whitespace character at a   *)
(* place where texts are joined or trimmed is a token of its own, any      *)
(* other token stands for the characters written in it.  String            *)
(* concatenation is \o.  Three specifications share the state: StoreSpec   *)
(* (the Record Store), ServerSpec (the routes and the pipeline) and        *)
(* UploadSpec (the upload route and the browser's file check).             *)
(***************************************************************************)
EXTENDS Integers, Sequences, FiniteSets, TLC

\* ------------------------------------------------------------------------
\* Bounds of the model
\* ------------------------------------------------------------------------
MaxUsers == 2
MaxImages == 1
MaxTransformations == 3
MaxClock == 1
MaxTimers == 3

\* JavaScript's undefined, as a value no record, number or text equals
Undefined == [undefined |-> TRUE]

\* ------------------------------------------------------------------------
\* State
\* ------------------------------------------------------------------------
VARIABLES
    users,                   \* MemStorage.users: Map<number, User>
    images,                  \* MemStorage.images
    transformations,         \* MemStorage.transformations
    userIdCounter,
    imageIdCounter,
    transformationIdCounter,
    now,                     \* the last wall-clock reading (new Date())
    storeRet,                \* the value the last Record Store call resolved to
    issued,                  \* history: per kind, the identifiers returned by create, in call order
    pc,                      \* where the server's request is: "idle", "awaitVision", "awaitImage"
    httpReq,                 \* the request being handled (or the last one handled)
    call,                    \* the arguments of the running transformImage invocation
    stylePrompt,             \* transformImage's local stylePrompt
    calls,                   \* the outbound capability calls of this execution, in order
    replies,                 \* history: how those calls settled, in order
    failures,                \* history: stage and message of every error raised so far
                             \*   for a rejected capability call
    caught,                  \* history: the error transformImage's catch block received
    outcome,                 \* how transformImage settled
    res,                     \* the HTTP response sent
    dropped,                 \* ImageUploader: the last onDrop and what it decided
    parsed,                  \* the last imageUploadSchema.safeParse and its issues
    homeError,               \* Home: the error state (null or the message displayed)
    timers,                  \* Home: the pending auto-hide timeouts, in firing order,
                             \*   each with the message it was set for (history)
    toast,                   \* Home: the last toast shown
    isLoading,               \* Home: the loading state the overlay shows
    selectedStyle,           \* TransformationWorkspace: null or the style id
    transformedImageUrl,     \* TransformationWorkspace: null or the URL displayed
    transformMutation,       \* the mutation's status and the variables it was run with
    producedBy,              \* history: the style sent in the request that
                             \*   produced transformedImageUrl
    download                 \* the last link handleDownload clicked

storeVars == <<users, images, transformations, userIdCounter, imageIdCounter,
               transformationIdCounter>>
storeAll == <<users, images, transformations, userIdCounter, imageIdCounter,
              transformationIdCounter, now, storeRet, issued>>

uiVars == <<parsed, homeError, timers, toast>>

workspaceVars == <<isLoading, selectedStyle, transformedImageUrl,
                   transformMutation, producedBy, download>>

appVars == <<pc, httpReq, call, stylePrompt, calls, replies, failures, caught,
             outcome, res, dropped, uiVars, workspaceVars>>

vars == <<users, images, transformations, userIdCounter, imageIdCounter,
          transformationIdCounter, now, storeRet, issued,
          pc, httpReq, call, stylePrompt, calls, replies, failures, caught,
          outcome, res, dropped, parsed, homeError, timers, toast,
          isLoading, selectedStyle, transformedImageUrl, transformMutation,
          producedBy, download>>

\* ------------------------------------------------------------------------
\* JavaScript Map: entries kept in insertion order
\* ------------------------------------------------------------------------
MapHas(m, k) == \E i \in 1..Len(m) : m[i].key = k

MapGet(m, k) ==
    IF MapHas(m, k)
    THEN (CHOOSE e \in {m[i] : i \in 1..Len(m)} : e.key = k).value
    ELSE Undefined

\* set on an existing key keeps the entry's position, a new key is appended
MapSet(m, k, v) ==
    IF MapHas(m, k)
    THEN [i \in 1..Len(m) |-> IF m[i].key = k THEN [key |-> k, value |-> v] ELSE m[i]]
    ELSE Append(m, [key |-> k, value |-> v])

\* Array.from(m.values())
MapValues(m) == [i \in 1..Len(m) |-> m[i].value]

\* Array.prototype.filter with the predicate on the record's own id
RECURSIVE FilterByImageId_ById(_, _)
FilterByImageId_ById(s, imageId) ==
    IF s = <<>> THEN <<>>
    ELSE (IF Head(s).id = imageId THEN <<Head(s)>> ELSE <<>>)
            \o FilterByImageId_ById(Tail(s), imageId)

\* Array.prototype.filter((transformation) => transformation.imageId === imageId)
RECURSIVE FilterByImageId(_, _)
FilterByImageId(s, imageId) ==
    IF s = <<>> THEN <<>>
    ELSE (IF Head(s).imageId = imageId THEN <<Head(s)>> ELSE <<>>)
            \o FilterByImageId(Tail(s), imageId)

\* Array.prototype.find((user) => user.username === username)
RECURSIVE FindByUsername(_, _)
FindByUsername(s, username) ==
    IF s = <<>> THEN Undefined
    ELSE IF Head(s).username = username THEN Head(s)
    ELSE FindByUsername(Tail(s), username)

\* ------------------------------------------------------------------------
\* Inputs of the Record Store
\* ------------------------------------------------------------------------
Usernames == {"ann", "bob"}
InsertUsers == [username : Usernames, password : {"pw"}]
InsertImages == [originalFilename : {"cat.png"}, originalUrl : {"mem://cat"},
                 userId : {<<>>}]      \* integer | null: <<>> is null
InsertTransformations == [imageId : {1, 2}, style : {"anime"},
                          transformedUrl : {"https://img/1"}]
\* identifiers to look up: one no create returns, the first one issued, and
\* one beyond every counter
QueryIds == {0, 1, MaxTransformations + 1}
ImageIdQueries == {1, 2, 3}

\* ------------------------------------------------------------------------
\* MemStorage
\* ------------------------------------------------------------------------
\* createUser reading the counter without advancing it
createUser_NoIncrement(insertUser) ==
    /\ userIdCounter <= MaxUsers
    /\ LET id == userIdCounter
           user == [username |-> insertUser.username,
                    password |-> insertUser.password, id |-> id]
       IN /\ userIdCounter' = userIdCounter
          /\ users' = MapSet(users, id, user)
          /\ storeRet' = [op |-> "createUser", arg |-> insertUser, value |-> user]
          /\ issued' = [issued EXCEPT !.user = Append(@, id)]
    /\ UNCHANGED <<images, transformations, imageIdCounter,
                   transformationIdCounter, now, appVars>>

createUser(insertUser) ==
    /\ userIdCounter <= MaxUsers
    /\ LET id == userIdCounter
           user == [username |-> insertUser.username,
                    password |-> insertUser.password, id |-> id]
       IN /\ userIdCounter' = userIdCounter + 1
          /\ users' = MapSet(users, id, user)
          /\ storeRet' = [op |-> "createUser", arg |-> insertUser, value |-> user]
          /\ issued' = [issued EXCEPT !.user = Append(@, id)]
    /\ UNCHANGED <<images, transformations, imageIdCounter,
                   transformationIdCounter, now, appVars>>

\* createImage taking its id from the users' counter
createImage_UserCounter(insertImage) ==
    /\ imageIdCounter <= MaxImages
    /\ \E t \in now..MaxClock :
        LET id == userIdCounter
            image == [originalFilename |-> insertImage.originalFilename,
                      originalUrl |-> insertImage.originalUrl,
                      userId |-> insertImage.userId,
                      id |-> id, createdAt |-> t]
        IN /\ userIdCounter' = userIdCounter + 1
           /\ images' = MapSet(images, id, image)
           /\ now' = t
           /\ storeRet' = [op |-> "createImage", arg |-> insertImage, value |-> image]
           /\ issued' = [issued EXCEPT !.image = Append(@, id)]
    /\ UNCHANGED <<users, transformations, imageIdCounter, transformationIdCounter,
                   appVars>>

createImage(insertImage) ==
    /\ imageIdCounter <= MaxImages
    /\ \E t \in now..MaxClock :
        LET id == imageIdCounter
            image == [originalFilename |-> insertImage.originalFilename,
                      originalUrl |-> insertImage.originalUrl,
                      userId |-> insertImage.userId,
                      id |-> id, createdAt |-> t]
        IN /\ imageIdCounter' = imageIdCounter + 1
           /\ images' = MapSet(images, id, image)
           /\ now' = t
           /\ storeRet' = [op |-> "createImage", arg |-> insertImage, value |-> image]
           /\ issued' = [issued EXCEPT !.image = Append(@, id)]
    /\ UNCHANGED <<users, transformations, userIdCounter, transformationIdCounter,
                   appVars>>

\* createTransformation with ++this.transformationIdCounter
createTransformation_PreIncrement(insertTransformation) ==
    /\ transformationIdCounter <= MaxTransformations
    /\ \E t \in now..MaxClock :
        LET id == transformationIdCounter + 1
            transformation == [imageId |-> insertTransformation.imageId,
                               style |-> insertTransformation.style,
                               transformedUrl |-> insertTransformation.transformedUrl,
                               id |-> id, createdAt |-> t]
        IN /\ transformationIdCounter' = transformationIdCounter + 1
           /\ transformations' = MapSet(transformations, id, transformation)
           /\ now' = t
           /\ storeRet' = [op |-> "createTransformation",
                           arg |-> insertTransformation, value |-> transformation]
           /\ issued' = [issued EXCEPT !.transformation = Append(@, id)]
    /\ UNCHANGED <<users, images, userIdCounter, imageIdCounter, appVars>>

createTransformation(insertTransformation) ==
    /\ transformationIdCounter <= MaxTransformations
    /\ \E t \in now..MaxClock :
        LET id == transformationIdCounter
            transformation == [imageId |-> insertTransformation.imageId,
                               style |-> insertTransformation.style,
                               transformedUrl |-> insertTransformation.transformedUrl,
                               id |-> id, createdAt |-> t]
        IN /\ transformationIdCounter' = transformationIdCounter + 1
           /\ transformations' = MapSet(transformations, id, transformation)
           /\ now' = t
           /\ storeRet' = [op |-> "createTransformation",
                           arg |-> insertTransformation, value |-> transformation]
           /\ issued' = [issued EXCEPT !.transformation = Append(@, id)]
    /\ UNCHANGED <<users, images, userIdCounter, imageIdCounter, appVars>>

getUser(id) ==
    /\ storeRet' = [op |-> "getUser", arg |-> id, value |-> MapGet(users, id)]
    /\ UNCHANGED <<storeVars, now, issued, appVars>>

getUserByUsername(username) ==
    /\ storeRet' = [op |-> "getUserByUsername", arg |-> username,
                    value |-> FindByUsername(MapValues(users), username)]
    /\ UNCHANGED <<storeVars, now, issued, appVars>>

getImage(id) ==
    /\ storeRet' = [op |-> "getImage", arg |-> id, value |-> MapGet(images, id)]
    /\ UNCHANGED <<storeVars, now, issued, appVars>>

\* getTransformation reading the slot before the one asked for
getTransformation_OffByOne(id) ==
    /\ storeRet' = [op |-> "getTransformation", arg |-> id,
                    value |-> MapGet(transformations, id - 1)]
    /\ UNCHANGED <<storeVars, now, issued, appVars>>

getTransformation(id) ==
    /\ storeRet' = [op |-> "getTransformation", arg |-> id,
                    value |-> MapGet(transformations, id)]
    /\ UNCHANGED <<storeVars, now, issued, appVars>>

getTransformationsByImageId(imageId) ==
    /\ storeRet' = [op |-> "getTransformationsByImageId", arg |-> imageId,
                    value |-> FilterByImageId(MapValues(transformations), imageId)]
    /\ UNCHANGED <<storeVars, now, issued, appVars>>

\* ------------------------------------------------------------------------
\* Values that may be undefined or null: <<>> is undefined/null, <<v>> is v
\* ------------------------------------------------------------------------
None == <<>>
Some(v) == <<v>>
IsSome(o) == Len(o) = 1
The(o) == o[1]

\* ------------------------------------------------------------------------
\* Text: a sequence of tokens.  A whitespace character at a place where
\* texts are joined or trimmed is a token of its own; any other token stands
\* for the run of characters written in it.
\* ------------------------------------------------------------------------
Whitespace == {" ", "\n", "\t"}

RECURSIVE TrimStart(_)
TrimStart(t) ==
    IF t # <<>> /\ Head(t) \in Whitespace THEN TrimStart(Tail(t)) ELSE t

RECURSIVE TrimEnd(_)
TrimEnd(t) ==
    IF t # <<>> /\ t[Len(t)] \in Whitespace
    THEN TrimEnd(SubSeq(t, 1, Len(t) - 1)) ELSE t

\* String.prototype.trim
Trim(t) == TrimEnd(TrimStart(t))

\* `${v}` in a template literal
Interpolate(o) == IF IsSome(o) THEN The(o) ELSE <<"undefined">>

\* the positions at which text part occurs in text whole
Occurrences(part, whole) ==
    {i \in 1..(Len(whole) - Len(part) + 1) :
        SubSeq(whole, i, i + Len(part) - 1) = part}

\* ------------------------------------------------------------------------
\* shared/types.ts and shared/schema.ts
\* ------------------------------------------------------------------------
\* the catalog kept in alphabetical order of id
STYLES_Alphabetical == <<
    [id |-> "anime", name |-> "Anime",
     description |-> "Transform into Japanese anime style"],
    [id |-> "futuristic", name |-> "Futuristic",
     description |-> "Transform into sci-fi futuristic style"],
    [id |-> "ghibli", name |-> "Ghibli",
     description |-> "Transform into Studio Ghibli style"],
    [id |-> "lego", name |-> "Lego",
     description |-> "Transform into Lego brick style art"],
    [id |-> "vintage", name |-> "Vintage",
     description |-> "Transform into vintage/retro style"] >>

STYLES == <<
    [id |-> "lego", name |-> "Lego",
     description |-> "Transform into Lego brick style art"],
    [id |-> "anime", name |-> "Anime",
     description |-> "Transform into Japanese anime style"],
    [id |-> "ghibli", name |-> "Ghibli",
     description |-> "Transform into Studio Ghibli style"],
    [id |-> "futuristic", name |-> "Futuristic",
     description |-> "Transform into sci-fi futuristic style"],
    [id |-> "vintage", name |-> "Vintage",
     description |-> "Transform into vintage/retro style"] >>

STYLE_PROMPTS ==
    [lego |-> <<"Transform this image into a LEGO brick style artwork, with clear plastic brick textures, vibrant primary colors, and the characteristic blocky LEGO aesthetic. Make it look like it was built with actual LEGO bricks.">>,
     anime |-> <<"Transform this image into a Japanese anime style illustration with vibrant colors, distinctive facial features like large expressive eyes, simplified details, and smooth outlines. Use the style commonly seen in popular anime.">>,
     ghibli |-> <<"Transform this image into a Studio Ghibli style illustration with soft watercolor-like textures, muted pastel colors, delicate details in nature elements, and the dreamlike quality characteristic of Hayao Miyazaki's films.">>,
     futuristic |-> <<"Transform this image into a sci-fi futuristic style with holographic elements, neon lighting, sleek metallic surfaces, advanced technology aesthetics, and a high-contrast color scheme dominated by blues and purples.">>,
     vintage |-> <<"Transform this image into a vintage/retro style with faded colors, subtle film grain, slightly washed-out contrast, and the aged aesthetic of photographs from the 1960s-70s.">>]

\* z.enum([...]) of styleTransformSchema
StyleEnum == {"lego", "anime", "ghibli", "futuristic", "vintage"}

\* a schema of z.string() in place of the enum
styleTransformSchema_AnyString(body) == "style" \in DOMAIN body

\* styleTransformSchema.safeParse({ style }).success
styleTransformSchema(body) ==
    /\ "style" \in DOMAIN body
    /\ body.style \in StyleEnum

\* ------------------------------------------------------------------------
\* Inputs of the server
\* ------------------------------------------------------------------------
\* what a caller may send as style: the five identifiers and two others
StyleInputs == StyleEnum \cup {"cubist", ""}
ImageInputs == {"", "aGVsbG8="}

\* req.body of POST /api/transform: either field may be missing
TransformBodies ==
    [style : StyleInputs, imageBase64 : ImageInputs]
        \cup [style : StyleInputs] \cup [imageBase64 : ImageInputs]
        \cup {[other |-> "x"]}

\* what the description capability may return as message.content
Descriptions ==
    { <<>>, <<" ">>, <<"\n", " ">>,
      <<"a smiling person outdoors">>,
      <<" ", "a smiling person outdoors">>,
      <<"a cat on a sofa", "\n">>,
      <<"\n", "a dog", " ", "in the rain", "\n", "\n">> }

\* messages of the errors an external call may reject with
CauseMessages == { <<"Connection error.">>, <<"429 Rate limit exceeded">> }

\* the outcomes of openai.chat.completions.create
VisionOutcomes ==
    {[kind |-> "ok", choices |-> <<[content |-> Some(d)]>>] : d \in Descriptions}
        \cup {[kind |-> "ok", choices |-> <<[content |-> None]>>],
              [kind |-> "ok", choices |-> <<>>]}
        \cup {[kind |-> "error", message |-> Some(m)] : m \in CauseMessages}
        \cup {[kind |-> "error", message |-> None]}

Urls == {"https://cdn.example/img-1.png", "https://cdn.example/img-2.png"}

\* the outcomes of openai.images.generate
ImageOutcomes ==
    {[kind |-> "ok", data |-> Some(<<[url |-> Some(u)]>>)] : u \in Urls}
        \cup {[kind |-> "ok", data |-> None],
              [kind |-> "ok", data |-> Some(<<>>)],
              [kind |-> "ok", data |-> Some(<<[url |-> None]>>)],
              [kind |-> "ok", data |-> Some(<<[url |-> Some("")]>>)]}
        \cup {[kind |-> "error", message |-> Some(m)] : m \in CauseMessages}
        \cup {[kind |-> "error", message |-> None]}

\* ------------------------------------------------------------------------
\* server/openai.ts: transformImage
\* ------------------------------------------------------------------------
NoOutcome == [kind |-> "none"]
NoCaught == [stage |-> "none"]
NoResponse == [status |-> 0]
NoRequest == [route |-> "none"]
NoCall == [caller |-> "none"]

\* STYLE_PROMPTS[style]
StylePromptFor(style) ==
    IF style \in DOMAIN STYLE_PROMPTS THEN Some(STYLE_PROMPTS[style]) ELSE None

\* the request to the description capability
VisionCall(imageBase64) ==
    [api |-> "chat.completions.create", model |-> "gpt-4o",
     image_url |-> <<"data:image/jpeg;base64,", imageBase64>>]

\* visionResponse.choices[0].message.content?.trim()
ImageDescriptionOf(response) ==
    LET content == response.choices[1].content
    IN IF IsSome(content) THEN Some(Trim(The(content))) ELSE None

\* imageDescription === undefined
DescriptionMissing_UndefinedOnly(imageDescription) == ~IsSome(imageDescription)

\* !imageDescription
DescriptionMissing(imageDescription) ==
    \/ ~IsSome(imageDescription)
    \/ The(imageDescription) = <<>>

\* the template literal with the description ahead of the style prompt
FinalPrompt_DescriptionFirst(prompt, imageDescription) ==
    imageDescription
        \o <<"\n", "\n", "Here is the image content to transform:", "\n">>
        \o Interpolate(prompt)
        \o <<"\n", "\n", "Preserve the identity, pose, and scene layout while applying the style.">>

\* the template literal of STEP 2
FinalPrompt(prompt, imageDescription) ==
    Interpolate(prompt)
        \o <<"\n", "\n", "Here is the image content to transform:", "\n">>
        \o imageDescription
        \o <<"\n", "\n", "Preserve the identity, pose, and scene layout while applying the style.">>

\* the request to the generation capability
ImageCall(finalPrompt) ==
    [api |-> "images.generate", model |-> "dall-e-3", prompt |-> finalPrompt,
     n |-> 1, size |-> "1024x1024", quality |-> "standard"]

\* generatedImage.data?.[0]?.url
ImageUrlOf(response) ==
    IF ~IsSome(response.data) THEN None
    ELSE IF The(response.data) = <<>> THEN None
    ELSE The(response.data)[1].url

\* imageUrl === undefined
UrlMissing_UndefinedOnly(imageUrl) == ~IsSome(imageUrl)

\* !imageUrl
UrlMissing(imageUrl) ==
    \/ ~IsSome(imageUrl)
    \/ The(imageUrl) = ""

\* the catch block dropping error.message
WrappedMessage_NoCause(message) == <<"Failed to transform image">>

\* the catch block: throw new Error(`Failed to transform image: ${error.message}`)
WrappedMessage(message) ==
    <<"Failed to transform image:", " ">> \o Interpolate(message)

Threw(message) == [kind |-> "threw", message |-> WrappedMessage(message)]
Returned(imageUrl) == [kind |-> "returned", value |-> imageUrl]

\* ------------------------------------------------------------------------
\* server/routes.ts: POST /api/transform, after transformImage settled
\* ------------------------------------------------------------------------
\* error.message || "Failed to transform image"
MessageOr(message, fallback) == IF message = <<>> THEN fallback ELSE message

TransformResponse(settled) ==
    IF settled.kind = "returned"
    THEN [status |-> 200, body |-> [transformedImageUrl |-> settled.value]]
    ELSE [status |-> 500,
          body |-> [message |-> MessageOr(settled.message,
                                          <<"Failed to transform image">>)]]

\* the caller of transformImage receives its settlement
Settle(settled) ==
    /\ outcome' = settled
    /\ pc' = "idle"
    /\ res' = IF call.caller = "route" THEN TransformResponse(settled) ELSE res

\* control enters the catch block with an error raised in the given stage
Catch(stage, origin, message) ==
    /\ caught' = [stage |-> stage, origin |-> origin, message |-> message]
    /\ failures' = IF origin = "call"
                   THEN failures \cup {[stage |-> stage,
                                        message |-> Threw(message).message]}
                   ELSE failures
    /\ Settle(Threw(message))

\* transformImage up to its first await
BeginTransformImage(caller, imageBase64, style) ==
    /\ call' = [caller |-> caller, imageBase64 |-> imageBase64, style |-> style]
    /\ stylePrompt' = StylePromptFor(style)
    /\ calls' = <<VisionCall(imageBase64)>>
    /\ replies' = <<>>
    /\ caught' = NoCaught
    /\ outcome' = NoOutcome
    /\ pc' = "awaitVision"

\* transformImage called by another module with arguments of any shape the
\* erased type allows at run time
DirectTransformImage(imageBase64, style) ==
    /\ pc = "idle"
    /\ BeginTransformImage("direct", imageBase64, style)
    /\ httpReq' = NoRequest
    /\ res' = NoResponse
    /\ UNCHANGED <<storeAll, failures, dropped, uiVars, workspaceVars>>

\* the description step swallowing a rejected call and generating anyway
VisionSettles_GenerateOnError(response) ==
    /\ pc = "awaitVision"
    /\ replies' = Append(replies, response)
    /\ IF response.kind = "error"
       THEN /\ calls' = Append(calls, ImageCall(FinalPrompt(stylePrompt, <<"undefined">>)))
            /\ pc' = "awaitImage"
            /\ UNCHANGED <<caught, failures, outcome, res>>
       ELSE IF response.choices = <<>>
       THEN /\ Catch("describe", "response",
                     Some(<<"Cannot read properties of undefined (reading 'message')">>))
            /\ UNCHANGED calls
       ELSE LET imageDescription == ImageDescriptionOf(response)
            IN IF DescriptionMissing(imageDescription)
               THEN /\ Catch("describe", "check",
                             Some(<<"Could not generate description from image.">>))
                    /\ UNCHANGED calls
               ELSE /\ calls' = Append(calls,
                          ImageCall(FinalPrompt(stylePrompt, The(imageDescription))))
                    /\ pc' = "awaitImage"
                    /\ UNCHANGED <<caught, failures, outcome, res>>
    /\ UNCHANGED <<storeAll, httpReq, call, stylePrompt, dropped, uiVars, workspaceVars>>

\* the description capability settles and transformImage runs to its next
\* await or to its end
VisionSettles(response) ==
    /\ pc = "awaitVision"
    /\ replies' = Append(replies, response)
    /\ IF response.kind = "error"
       THEN Catch("describe", "call", response.message) /\ UNCHANGED calls
       ELSE IF response.choices = <<>>
       THEN /\ Catch("describe", "response",
                     Some(<<"Cannot read properties of undefined (reading 'message')">>))
            /\ UNCHANGED calls
       ELSE LET imageDescription == ImageDescriptionOf(response)
            IN IF DescriptionMissing(imageDescription)
               THEN /\ Catch("describe", "check",
                             Some(<<"Could not generate description from image.">>))
                    /\ UNCHANGED calls
               ELSE /\ calls' = Append(calls,
                          ImageCall(FinalPrompt(stylePrompt, The(imageDescription))))
                    /\ pc' = "awaitImage"
                    /\ UNCHANGED <<caught, failures, outcome, res>>
    /\ UNCHANGED <<storeAll, httpReq, call, stylePrompt, dropped, uiVars, workspaceVars>>

\* the generation capability settles and transformImage runs to its end
ImageSettles(response) ==
    /\ pc = "awaitImage"
    /\ replies' = Append(replies, response)
    /\ IF response.kind = "error"
       THEN Catch("generate", "call", response.message)
       ELSE LET imageUrl == ImageUrlOf(response)
            IN IF UrlMissing(imageUrl)
               THEN Catch("generate", "check", Some(<<"Failed to generate image URL">>))
               ELSE Settle(Returned(The(imageUrl))) /\ UNCHANGED <<caught, failures>>
    /\ UNCHANGED <<storeAll, httpReq, call, stylePrompt, calls, dropped, uiVars, workspaceVars>>

\* POST /api/transform, up to the handler's first await or its response
PostTransform(body) ==
    /\ pc = "idle"
    /\ httpReq' = [route |-> "POST /api/transform", body |-> body]
    /\ IF ~styleTransformSchema(body)
       THEN /\ res' = [status |-> 400,
                       body |-> [message |-> <<"Invalid style selected">>]]
            /\ call' = NoCall /\ stylePrompt' = None /\ calls' = <<>> /\ replies' = <<>>
            /\ caught' = NoCaught /\ outcome' = NoOutcome /\ pc' = "idle"
       ELSE IF ~("imageBase64" \in DOMAIN body) \/ body.imageBase64 = ""
       THEN /\ res' = [status |-> 400,
                       body |-> [message |-> <<"No image data provided">>]]
            /\ call' = NoCall /\ stylePrompt' = None /\ calls' = <<>> /\ replies' = <<>>
            /\ caught' = NoCaught /\ outcome' = NoOutcome /\ pc' = "idle"
       ELSE /\ BeginTransformImage("route", body.imageBase64, body.style)
            /\ res' = NoResponse
    /\ UNCHANGED <<storeAll, failures, dropped, uiVars, workspaceVars>>

\* GET /api/styles
GetStyles ==
    /\ pc = "idle"
    /\ httpReq' = [route |-> "GET /api/styles"]
    /\ res' = [status |-> 200, body |-> STYLES]
    /\ call' = NoCall /\ stylePrompt' = None /\ calls' = <<>> /\ replies' = <<>>
    /\ caught' = NoCaught /\ outcome' = NoOutcome /\ pc' = "idle"
    /\ UNCHANGED <<storeAll, failures, dropped, uiVars, workspaceVars>>

\* ------------------------------------------------------------------------
\* server/routes.ts: the multer upload middleware and POST /api/upload
\* ------------------------------------------------------------------------
\* limits.fileSize: 5 * 1024 * 1024
FileSizeLimit == 5 * 1024 * 1024

\* a MIME type is the pair <<type, subtype>> of "type/subtype"
AllowedMimeTypes == {<<"image", "jpeg">>, <<"image", "png">>, <<"image", "webp">>}

MimeInputs ==
    AllowedMimeTypes \cup {<<"image", "gif">>, <<"text", "plain">>,
                           <<"application", "pdf">>}

SizeInputs ==
    {0, 1024 * 1024, FileSizeLimit - 1, FileSizeLimit, FileSizeLimit + 1,
     6 * 1024 * 1024}

\* the file part of the multipart form
FileInputs ==
    [mimetype : MimeInputs, size : SizeInputs, originalname : {"photo"}]

\* the requests POST /api/upload may receive: a form without the image
\* field, or one file
UploadInputs == {None} \cup {Some(f) : f \in FileInputs}

\* file.mimetype.startsWith("image/")
StartsWithImage(mimetype) == mimetype[1] = "image"

\* fileFilter with only the image/ prefix check
fileFilter_AnyImage(file) ==
    IF ~StartsWithImage(file.mimetype)
    THEN Some([name |-> "Error", message |-> <<"Only image files are allowed">>])
    ELSE None

\* fileFilter: the error it passes to cb, or None when it accepts the file
fileFilter(file) ==
    IF ~StartsWithImage(file.mimetype)
    THEN Some([name |-> "Error", message |-> <<"Only image files are allowed">>])
    ELSE IF file.mimetype \notin AllowedMimeTypes
    THEN Some([name |-> "Error",
               message |-> <<"Please upload a valid image (JPG, PNG, WEBP)">>])
    ELSE None

\* multer's upload.single("image"): the filter runs on the part's header,
\* the size limit applies while the accepted part is read; either error is
\* passed to next(err) and the route handler is not run
MulterError(upload) ==
    IF ~IsSome(upload) THEN None
    ELSE IF IsSome(fileFilter(The(upload))) THEN fileFilter(The(upload))
    ELSE IF The(upload).size > FileSizeLimit
    THEN Some([name |-> "MulterError", code |-> "LIMIT_FILE_SIZE",
               message |-> <<"File too large">>])
    ELSE None

\* req.file.buffer.toString("base64"): the encoding of the file's bytes,
\* four characters for every three bytes, padded
Base64(file) == [of |-> file.originalname, length |-> 4 * ((file.size + 2) \div 3)]

\* an error passed to next(err) that carries no status is answered by
\* Express's error handling with status 500
ErrorResponse(err) ==
    [status |-> 500, by |-> "next(err)", error |-> err]

\* POST /api/upload with a handler that also stores the image
PostUpload_StoresImage(upload) ==
    /\ pc = "idle"
    /\ httpReq' = [route |-> "POST /api/upload", file |-> upload]
    /\ res' = IF IsSome(MulterError(upload))
              THEN ErrorResponse(The(MulterError(upload)))
              ELSE IF ~IsSome(upload)
              THEN [status |-> 400,
                    body |-> [message |-> <<"No image file uploaded">>]]
              ELSE [status |-> 200,
                    body |-> [imageBase64 |-> Base64(The(upload)),
                              originalName |-> The(upload).originalname]]
    /\ call' = NoCall /\ stylePrompt' = None /\ calls' = <<>> /\ replies' = <<>>
    /\ caught' = NoCaught /\ outcome' = NoOutcome /\ pc' = "idle"
    /\ IF IsSome(upload) /\ ~IsSome(MulterError(upload))
       THEN /\ images' = MapSet(images, imageIdCounter,
                                [originalFilename |-> The(upload).originalname,
                                 originalUrl |-> Base64(The(upload)),
                                 userId |-> <<>>,
                                 id |-> imageIdCounter, createdAt |-> now])
            /\ imageIdCounter' = imageIdCounter + 1
       ELSE UNCHANGED <<images, imageIdCounter>>
    /\ UNCHANGED <<users, transformations, userIdCounter,
                   transformationIdCounter, now, storeRet, issued,
                   failures, dropped, uiVars, workspaceVars>>

\* POST /api/upload: the middleware and the handler
PostUpload(upload) ==
    /\ pc = "idle"
    /\ httpReq' = [route |-> "POST /api/upload", file |-> upload]
    /\ res' = IF IsSome(MulterError(upload))
              THEN ErrorResponse(The(MulterError(upload)))
              ELSE IF ~IsSome(upload)
              THEN [status |-> 400,
                    body |-> [message |-> <<"No image file uploaded">>]]
              ELSE [status |-> 200,
                    body |-> [imageBase64 |-> Base64(The(upload)),
                              originalName |-> The(upload).originalname]]
    /\ call' = NoCall /\ stylePrompt' = None /\ calls' = <<>> /\ replies' = <<>>
    /\ caught' = NoCaught /\ outcome' = NoOutcome /\ pc' = "idle"
    /\ UNCHANGED <<storeAll, failures, dropped, uiVars, workspaceVars>>

\* ------------------------------------------------------------------------
\* client/src/components/ImageUploader.tsx
\* ------------------------------------------------------------------------
\* validateFile with the size check before the type check
validateFile_SizeFirst(file) ==
    IF file.size > 5 * 1024 * 1024
    THEN Some(<<"Image size should not exceed 5MB">>)
    ELSE IF file.mimetype \notin AllowedMimeTypes
    THEN Some(<<"Please upload a valid image (JPG, PNG, WEBP)">>)
    ELSE None

\* validateFile: the error message, or None (null) when the file is valid
validateFile(file) ==
    IF file.mimetype \notin AllowedMimeTypes
    THEN Some(<<"Please upload a valid image (JPG, PNG, WEBP)">>)
    ELSE IF file.size > 5 * 1024 * 1024
    THEN Some(<<"Image size should not exceed 5MB">>)
    ELSE None

\* onDrop with one accepted file: the error goes to onError, a valid file
\* to uploadMutation.mutate
onDrop(file) ==
    /\ dropped' = [file |-> file, error |-> validateFile(file),
                   mutate |-> ~IsSome(validateFile(file))]
    /\ UNCHANGED <<storeAll, pc, httpReq, call, stylePrompt, calls, replies,
                   failures, caught, outcome, res, uiVars, workspaceVars>>

\* ------------------------------------------------------------------------
\* shared/schema.ts: imageUploadSchema
\* ------------------------------------------------------------------------
\* the issues of the image field, in the order of the refinements: both
\* refinements run, the size one first
imageUploadSchema(file) ==
    (IF file.size < 5 * 1024 * 1024
     THEN <<>> ELSE << <<"Image size should not exceed 5MB">> >>)
    \o (IF file.mimetype \in AllowedMimeTypes
        THEN <<>> ELSE << <<"Please upload a valid image (JPG, PNG, WEBP)">> >>)

NoParse == [input |-> None, success |-> FALSE, issues |-> <<>>]

\* imageUploadSchema.safeParse({ image: file })
safeParse(file) ==
    /\ parsed' = [input |-> Some(file),
                  success |-> imageUploadSchema(file) = <<>>,
                  issues |-> imageUploadSchema(file)]
    /\ UNCHANGED <<storeAll, pc, httpReq, call, stylePrompt, calls, replies,
                   failures, caught, outcome, res, dropped, homeError, timers,
                   toast, workspaceVars>>

\* ------------------------------------------------------------------------
\* client/src/pages/Home.tsx
\* ------------------------------------------------------------------------
\* the messages the uploader and the workspace pass to onError
HomeMessages ==
    {The(validateFile(file)) : file \in {f \in FileInputs : IsSome(validateFile(f))}}
        \cup {<<"Failed to upload image">>, <<"Failed to transform image">>}

\* handleError: every timeout is 5000 ms, so the timeouts fire in the
\* order they were set
handleError(message) ==
    /\ Len(timers) < MaxTimers
    /\ homeError' = Some(message)
    /\ toast' = Some([variant |-> "destructive", title |-> "Error",
                      description |-> message])
    /\ timers' = Append(timers, message)
    /\ UNCHANGED <<storeAll, pc, httpReq, call, stylePrompt, calls, replies,
                   failures, caught, outcome, res, dropped, parsed,
                   workspaceVars>>

\* the callback of the oldest pending timeout: setError(null)
TimerFires ==
    /\ timers # <<>>
    /\ homeError' = None
    /\ timers' = Tail(timers)
    /\ UNCHANGED <<storeAll, pc, httpReq, call, stylePrompt, calls, replies,
                   failures, caught, outcome, res, dropped, parsed, toast,
                   workspaceVars>>

\* ErrorMessage: the message rendered, None when the component returns null
ErrorMessage(message, isVisible) ==
    IF ~isVisible \/ ~IsSome(message) \/ message = Some(<<>>)
    THEN None
    ELSE message

\* <ErrorMessage message={error} isVisible={!!error} />
Displayed ==
    ErrorMessage(homeError, IsSome(homeError) /\ homeError # Some(<<>>))

\* ------------------------------------------------------------------------
\* client/src/components/TransformationWorkspace.tsx
\* ------------------------------------------------------------------------
\* the originalImage prop: dataUrl is "data:<type>;base64,<data>", held as
\* its parts around the comma
OriginalImage ==
    [file |-> [mimetype |-> <<"image", "png">>, size |-> 1024 * 1024,
               originalname |-> "photo"],
     dataUrl |-> <<"data:image/png;base64", "aGVsbG8=">>]

\* the ids of the cards StyleSelection renders
StyleCards == {STYLES[i].id : i \in 1..Len(STYLES)}

\* what the rejected request's error carries as message
ErrorInputs == {None, Some(<<"500: Failed to transform image">>)}

\* !value for a string | null
Falsy(value) == ~IsSome(value) \/ The(value) = ""

\* <LoadingOverlay isVisible={isLoading} />: fixed over the whole page
LoadingOverlay == isLoading

\* the Transform button's disabled attribute
TransformDisabled ==
    Falsy(selectedStyle) \/ transformMutation.status = "pending"

\* selectedStyle.charAt(0).toUpperCase() + selectedStyle.slice(1)
Capitalize(style) == [upper |-> style]

\* the badge in the header of the result card, None when it is not rendered
Badge ==
    IF Falsy(selectedStyle) THEN None
    ELSE Some(<<Capitalize(The(selectedStyle)), " Style">>)

\* a click on a style card
handleStyleSelect(styleId) ==
    /\ ~LoadingOverlay
    /\ selectedStyle' = Some(styleId)
    /\ UNCHANGED <<storeAll, pc, httpReq, call, stylePrompt, calls, replies,
                   failures, caught, outcome, res, dropped, uiVars, isLoading,
                   transformedImageUrl, transformMutation, producedBy, download>>

\* a click on Transform Image: mutate and its onMutate
handleTransform ==
    /\ ~LoadingOverlay
    /\ ~TransformDisabled
    /\ IF Falsy(selectedStyle)
       THEN UNCHANGED <<transformMutation, isLoading>>
       ELSE /\ transformMutation' =
                    [status |-> "pending",
                     variables |-> [style |-> The(selectedStyle),
                                    imageBase64 |-> OriginalImage.dataUrl[2]]]
            /\ isLoading' = TRUE
    /\ UNCHANGED <<storeAll, pc, httpReq, call, stylePrompt, calls, replies,
                   failures, caught, outcome, res, dropped, uiVars,
                   selectedStyle, transformedImageUrl, producedBy, download>>

\* the request resolved: onSuccess, then onSettled
TransformSucceeds(url) ==
    /\ transformMutation.status = "pending"
    /\ transformedImageUrl' = Some(url)
    /\ producedBy' = Some(transformMutation.variables.style)
    /\ isLoading' = FALSE
    /\ transformMutation' = [transformMutation EXCEPT !.status = "success"]
    /\ UNCHANGED <<storeAll, pc, httpReq, call, stylePrompt, calls, replies,
                   failures, caught, outcome, res, dropped, uiVars,
                   selectedStyle, download>>

\* the request rejected: onError calls Home's handleError, then onSettled
TransformFails(error) ==
    /\ transformMutation.status = "pending"
    /\ Len(timers) < MaxTimers
    /\ LET message == MessageOr(error, Some(<<"Failed to transform image">>))
       IN /\ homeError' = message
          /\ toast' = Some([variant |-> "destructive", title |-> "Error",
                            description |-> The(message)])
          /\ timers' = Append(timers, The(message))
    /\ isLoading' = FALSE
    /\ transformMutation' = [transformMutation EXCEPT !.status = "error"]
    /\ UNCHANGED <<storeAll, pc, httpReq, call, stylePrompt, calls, replies,
                   failures, caught, outcome, res, dropped, parsed,
                   selectedStyle, transformedImageUrl, producedBy, download>>

\* a click on Download Image; the record also keeps, as history, the style
\* sent in the request that produced the image downloaded
handleDownload ==
    /\ ~LoadingOverlay
    /\ ~Falsy(transformedImageUrl)
    /\ \E time \in 0..MaxClock :
        download' =
            Some([href |-> The(transformedImageUrl),
                  download |-> <<"Silkify-",
                                 IF IsSome(selectedStyle)
                                 THEN The(selectedStyle) ELSE "null",
                                 "-", time, ".png">>,
                  producedBy |-> producedBy])
    /\ UNCHANGED <<storeAll, pc, httpReq, call, stylePrompt, calls, replies,
                   failures, caught, outcome, res, dropped, uiVars, isLoading,
                   selectedStyle, transformedImageUrl, transformMutation,
                   producedBy>>

\* a click on Try Different Style
resetTransformation ==
    /\ ~LoadingOverlay
    /\ ~Falsy(transformedImageUrl)
    /\ selectedStyle' = None
    /\ transformedImageUrl' = None
    /\ producedBy' = None
    /\ UNCHANGED <<storeAll, pc, httpReq, call, stylePrompt, calls, replies,
                   failures, caught, outcome, res, dropped, uiVars, isLoading,
                   transformMutation, download>>

\* a click on Upload New Image: Home's resetAll unmounts the workspace, and
\* the next upload mounts it with its initial state
resetAll ==
    /\ ~LoadingOverlay
    /\ ~Falsy(transformedImageUrl)
    /\ selectedStyle' = None
    /\ transformedImageUrl' = None
    /\ transformMutation' = [status |-> "idle"]
    /\ producedBy' = None
    /\ UNCHANGED <<storeAll, pc, httpReq, call, stylePrompt, calls, replies,
                   failures, caught, outcome, res, dropped, uiVars, isLoading,
                   download>>

AppInit ==
    /\ pc = "idle"
    /\ httpReq = NoRequest
    /\ call = NoCall
    /\ stylePrompt = None
    /\ calls = <<>>
    /\ replies = <<>>
    /\ failures = {}
    /\ caught = NoCaught
    /\ outcome = NoOutcome
    /\ res = NoResponse
    /\ dropped = [mutate |-> FALSE]
    /\ parsed = NoParse
    /\ homeError = None
    /\ timers = <<>>
    /\ toast = None
    /\ isLoading = FALSE
    /\ selectedStyle = None
    /\ transformedImageUrl = None
    /\ transformMutation = [status |-> "idle"]
    /\ producedBy = None
    /\ download = None

\* new MemStorage()
StoreInit ==
    /\ users = <<>>
    /\ images = <<>>
    /\ transformations = <<>>
    /\ userIdCounter = 1
    /\ imageIdCounter = 1
    /\ transformationIdCounter = 1
    /\ now = 0
    /\ storeRet = [op |-> "none", arg |-> Undefined, value |-> Undefined]
    /\ issued = [user |-> <<>>, image |-> <<>>, transformation |-> <<>>]

Init == StoreInit /\ AppInit

StoreNext ==
    \/ \E u \in InsertUsers : createUser(u)
    \/ \E i \in InsertImages : createImage(i)
    \/ \E t \in InsertTransformations : createTransformation(t)
    \/ \E id \in QueryIds : getUser(id)
    \/ \E n \in Usernames : getUserByUsername(n)
    \/ \E id \in QueryIds : getImage(id)
    \/ \E id \in QueryIds : getTransformation(id)
    \/ \E id \in ImageIdQueries : getTransformationsByImageId(id)

StoreSpec == Init /\ [][StoreNext]_vars

\* the HTTP surface and the pipeline: one request is handled at a time
ServerNext ==
    \/ GetStyles
    \/ \E upload \in UploadInputs : PostUpload(upload)
    \/ \E body \in TransformBodies : PostTransform(body)
    \/ \E i \in ImageInputs, style \in StyleInputs : DirectTransformImage(i, style)
    \/ \E response \in VisionOutcomes : VisionSettles(response)
    \/ \E response \in ImageOutcomes : ImageSettles(response)

ServerSpec == Init /\ [][ServerNext]_vars

\* uploads: the browser's check of a dropped file and the server's route
UploadNext ==
    \/ \E file \in FileInputs : onDrop(file)
    \/ \E upload \in UploadInputs : PostUpload(upload)
    \/ \E file \in FileInputs : safeParse(file)

UploadSpec == Init /\ [][UploadNext]_vars

\* the Home page: errors raised by its children and the timeouts running out
HomeNext ==
    \/ \E message \in HomeMessages : handleError(message)
    \/ TimerFires

HomeSpec == Init /\ [][HomeNext]_vars

\* the workspace: the user's clicks, the request settling, the timeouts
WorkspaceNext ==
    \/ \E styleId \in StyleCards : handleStyleSelect(styleId)
    \/ handleTransform
    \/ \E url \in Urls : TransformSucceeds(url)
    \/ \E error \in ErrorInputs : TransformFails(error)
    \/ handleDownload
    \/ resetTransformation
    \/ resetAll
    \/ TimerFires

WorkspaceSpec == Init /\ [][WorkspaceNext]_vars

\* the routes running over a store that other callers fill
ServiceUploads ==
    {None,
     Some([mimetype |-> <<"image", "png">>, size |-> 1024 * 1024,
           originalname |-> "photo"]),
     Some([mimetype |-> <<"image", "gif">>, size |-> 6 * 1024 * 1024,
           originalname |-> "photo"])}

ServiceBodies ==
    {[style |-> "anime", imageBase64 |-> "aGVsbG8="],
     [style |-> "cubist", imageBase64 |-> "aGVsbG8="],
     [style |-> "lego"]}

ServiceVisionOutcomes ==
    {[kind |-> "ok",
      choices |-> <<[content |-> Some(<<"a smiling person outdoors">>)]>>],
     [kind |-> "ok", choices |-> <<[content |-> None]>>],
     [kind |-> "error", message |-> Some(<<"Connection error.">>)]}

ServiceImageOutcomes ==
    {[kind |-> "ok", data |-> Some(<<[url |-> Some("https://cdn.example/img-1.png")]>>)],
     [kind |-> "ok", data |-> None],
     [kind |-> "error", message |-> Some(<<"Connection error.">>)]}

ServiceNext ==
    \/ \E u \in {x \in InsertUsers : x.username = "ann"} : createUser(u)
    \/ \E i \in InsertImages : createImage(i)
    \/ \E t \in {x \in InsertTransformations : x.imageId = 1} :
            createTransformation(t)
    \/ GetStyles
    \/ \E upload \in ServiceUploads : PostUpload(upload)
    \/ \E body \in ServiceBodies : PostTransform(body)
    \/ \E response \in ServiceVisionOutcomes : VisionSettles(response)
    \/ \E response \in ServiceImageOutcomes : ImageSettles(response)

ServiceSpec == Init /\ [][ServiceNext]_vars

\* ------------------------------------------------------------------------
\* Record Store properties
\* ------------------------------------------------------------------------
Kinds == {"user", "image", "transformation"}

RangeOf(s) == {s[i] : i \in 1..Len(s)}

\* C1: for each entity kind the k-th create returns identifier k, so N
\* creates yield the distinct, strictly increasing identifiers 1..N and no
\* identifier is assigned twice.
C1_CreateIds ==
    \A kind \in Kinds :
        \A k \in 1..Len(issued[kind]) : issued[kind][k] = k

C1_Witness ==
    /\ Len(issued.user) = MaxUsers
    /\ Len(issued.transformation) = MaxTransformations
    /\ Len(issued.image) = MaxImages

\* C2: getTransformationsByImageId(x) returns exactly the stored
\* transformations whose imageId is x, none omitted and none with another
\* imageId, in creation order.
C2_ListByImageId ==
    storeRet.op = "getTransformationsByImageId" =>
        LET r == storeRet.value
            x == storeRet.arg
        IN /\ \A i \in 1..Len(r) : r[i].imageId = x
           /\ \A i \in 1..Len(r) : r[i] = MapGet(transformations, r[i].id)
           /\ \A j \in 1..Len(transformations) :
                 transformations[j].value.imageId = x
                    => \E i \in 1..Len(r) : r[i] = transformations[j].value
           /\ \A i, j \in 1..Len(r) : i < j => r[i].id < r[j].id

C2_Witness ==
    /\ storeRet.op = "getTransformationsByImageId"
    /\ Len(storeRet.value) >= 2
    /\ Len(transformations) > Len(storeRet.value)

GetOpKind ==
    [getUser |-> "user", getImage |-> "image", getTransformation |-> "transformation"]

GetOfAbsent(ret) ==
    /\ ret.op \in DOMAIN GetOpKind
    /\ ret.arg \notin RangeOf(issued[GetOpKind[ret.op]])

\* C3: getUser, getImage and getTransformation on an identifier no create
\* of that kind returned resolve to undefined (a normal result) and leave
\* the store unchanged.
C3_GetAbsent ==
    /\ [](GetOfAbsent(storeRet) => storeRet.value = Undefined)
    /\ [][GetOfAbsent(storeRet') => UNCHANGED <<storeVars, issued>>]_vars

C3_Witness ==
    /\ storeRet.op = "getTransformation"
    /\ GetOfAbsent(storeRet)
    /\ storeRet.arg > 0
    /\ Len(issued.transformation) >= 2

\* ------------------------------------------------------------------------
\* Transformation pipeline properties
\* ------------------------------------------------------------------------
GenerateCalls == {i \in 1..Len(calls) : calls[i].api = "images.generate"}
DescribeCalls == {i \in 1..Len(calls) : calls[i].api = "chat.completions.create"}

\* the description capability answered, and its answer carries no
\* description: null content, the empty string, or whitespace only
BlankDescriptionReply ==
    /\ Len(replies) >= 1
    /\ replies[1].kind = "ok"
    /\ replies[1].choices # <<>>
    /\ LET content == replies[1].choices[1].content
       IN \/ content = None
          \/ /\ content # None
             /\ \A i \in 1..Len(The(content)) : The(content)[i] \in {" ", "\n", "\t"}

\* C4: when the description capability returns an empty, whitespace-only
\* or missing description, transformImage fails with the
\* description-unavailable error and the generation capability is not
\* invoked in that execution.
C4_BlankDescriptionFails ==
    BlankDescriptionReply =>
        /\ pc = "idle"
        /\ outcome.kind = "threw"
        /\ outcome.message = <<"Failed to transform image:", " ",
                               "Could not generate description from image.">>
        /\ GenerateCalls = {}
        /\ Len(replies) = 1

C4_Witness ==
    /\ BlankDescriptionReply
    /\ replies[1].choices[1].content = Some(<<"\n", " ">>)
    /\ call.caller = "route"

\* the execution described, generated and the generation capability
\* returned a URL, for one of the five styles
GeneratedFor(style, description, url) ==
    /\ call.caller # "none"
    /\ call.style = style
    /\ Len(replies) = 2
    /\ replies[1].kind = "ok"
    /\ replies[1].choices # <<>>
    /\ replies[1].choices[1].content = Some(description)
    /\ replies[2] = [kind |-> "ok", data |-> Some(<<[url |-> Some(url)]>>)]

\* text t is text d without its leading and trailing whitespace
IsStripped(t, d) ==
    \E i \in 1..Len(d) : \E j \in i..Len(d) :
        /\ t = SubSeq(d, i, j)
        /\ d[i] \notin Whitespace
        /\ d[j] \notin Whitespace
        /\ \A k \in 1..Len(d) : (k < i \/ k > j) => d[k] \in Whitespace

\* in the prompt sent to the generation capability, the style's template
\* occurs and text t occurs after it
TemplateThenText(style, t) ==
    /\ Len(calls) = 2
    /\ calls[2].api = "images.generate"
    /\ \E p \in Occurrences(STYLE_PROMPTS[style], calls[2].prompt) :
       \E q \in Occurrences(t, calls[2].prompt) :
            p + Len(STYLE_PROMPTS[style]) <= q

\* C5 as stated: for each of the five styles and every non-empty
\* description returned, when the generation capability returns a URL,
\* transformImage returns that URL and the prompt contains the style's
\* template and, after it, the description text as returned.
C5_PromptHasDescriptionAsReturned ==
    \A style \in StyleEnum : \A d \in Descriptions \ {<<>>} : \A url \in Urls :
        GeneratedFor(style, d, url) =>
            /\ outcome = [kind |-> "returned", value |-> url]
            /\ TemplateThenText(style, d)

\* C5: for each of the five styles and every non-empty description
\* returned, when the generation capability returns a URL, transformImage
\* returns exactly that URL and the prompt contains the style's template
\* and, after it, the description with its leading and trailing whitespace
\* removed.
C5_PromptHasStrippedDescription ==
    \A style \in StyleEnum : \A d \in Descriptions \ {<<>>} : \A url \in Urls :
        GeneratedFor(style, d, url) =>
            /\ outcome = [kind |-> "returned", value |-> url]
            /\ \E t \in {SubSeq(d, i, j) : i, j \in 1..Len(d)} :
                    IsStripped(t, d) /\ TemplateThenText(style, t)

C5_Witness ==
    /\ GeneratedFor("ghibli", <<"\n", "a dog", " ", "in the rain", "\n", "\n">>,
                    "https://cdn.example/img-2.png")
    /\ outcome.kind = "returned"

\* C6: transformImage invoked with a style outside the five catalog
\* identifiers fails with UnknownStyle before any call to the description or
\* generation capability.
C6_UnknownStyleFailsBeforeCalls ==
    (call.caller # "none" /\ call.style \notin StyleEnum) =>
        /\ calls = <<>>
        /\ outcome.kind = "threw"

\* ------------------------------------------------------------------------
\* HTTP surface properties
\* ------------------------------------------------------------------------
FiveMiB == 5 * 1024 * 1024
JpegPngWebp == {<<"image", "jpeg">>, <<"image", "png">>, <<"image", "webp">>}

UploadOf(file) ==
    /\ httpReq.route = "POST /api/upload"
    /\ httpReq.file = Some(file)

ReturnsBase64 ==
    /\ "body" \in DOMAIN res
    /\ "imageBase64" \in DOMAIN res.body

\* C7: the upload handler rejects every payload over 5 MiB whatever its
\* MIME type and every payload with a MIME type other than image/jpeg,
\* image/png, image/webp whatever its size, on the server and in the
\* browser's validateFile; a rejected payload is never converted to base64
\* and returned.
C7_UploadRejects ==
    /\ \A file \in FileInputs :
        (UploadOf(file) /\ (file.size > FiveMiB \/ file.mimetype \notin JpegPngWebp))
            => (res.status # 200 /\ res.status # 0 /\ ~ReturnsBase64)
    /\ ("file" \in DOMAIN dropped
            /\ (dropped.file.size > FiveMiB \/ dropped.file.mimetype \notin JpegPngWebp))
            => (IsSome(dropped.error) /\ ~dropped.mutate)

C7_Witness ==
    /\ \E file \in FileInputs :
        /\ UploadOf(file)
        /\ file.size = FiveMiB + 1
        /\ file.mimetype = <<"image", "png">>
    /\ res.status >= 400
    /\ "file" \in DOMAIN dropped
    /\ dropped.file.mimetype = <<"image", "gif">>
    /\ dropped.file.size = 0

TransformRequest == httpReq.route = "POST /api/transform"

\* C8: POST /api/transform answers 400 without calling a capability when
\* style is not one of the five identifiers or imageBase64 is absent, 500
\* with a message whenever the pipeline fails, and 200 with
\* transformedImageUrl only when the pipeline returned a URL.
C8_TransformStatus ==
    TransformRequest =>
        /\ ( \/ "style" \notin DOMAIN httpReq.body
             \/ ("style" \in DOMAIN httpReq.body /\ httpReq.body.style \notin
                    {"lego", "anime", "ghibli", "futuristic", "vintage"})
             \/ "imageBase64" \notin DOMAIN httpReq.body )
            => (res.status = 400 /\ calls = <<>> /\ pc = "idle")
        /\ outcome.kind = "threw"
            => (res.status = 500 /\ res.body.message # <<>>)
        /\ res.status = 200
            => (outcome.kind = "returned"
                    /\ res.body = [transformedImageUrl |-> outcome.value])
        /\ pc # "idle" => res = NoResponse

C8_Witness ==
    /\ TransformRequest
    /\ res.status = 500
    /\ caught.stage = "generate"
    /\ httpReq.body.style = "vintage"

\* C9: POST /api/upload answers 400 with a JSON {message} body for every
\* client-input failure (no file, a file over 5 MiB, a MIME type that is
\* not allowed); 500 is used only for unexpected errors.
C9_UploadClientErrorsAre400 ==
    (httpReq.route = "POST /api/upload"
        /\ \/ httpReq.file = None
           \/ \E file \in FileInputs :
                /\ httpReq.file = Some(file)
                /\ (file.size > FiveMiB \/ file.mimetype \notin JpegPngWebp))
    => (res.status = 400 /\ "body" \in DOMAIN res /\ "message" \in DOMAIN res.body)

\* C10 as stated: the error raised for a failed external call identifies
\* the failing stage, so that a describe-stage failure and a generate-stage
\* failure are distinguishable by their messages.
C10_StageDistinguishable ==
    \A a, b \in failures : a.message = b.message => a.stage = b.stage

\* C10: every failure of an external call inside transformImage is
\* re-raised as a single error whose message is "Failed to transform
\* image: " followed by the original cause message, with the same wording
\* for the description stage and the generation stage.
C10_WrappedWithCause ==
    (caught.stage # "none" /\ caught.origin = "call") =>
        /\ Len(replies) >= 1
        /\ replies[Len(replies)].kind = "error"
        /\ caught.stage = (IF Len(replies) = 1 THEN "describe" ELSE "generate")
        /\ outcome.kind = "threw"
        /\ outcome.message =
             <<"Failed to transform image:", " ">>
                \o (IF replies[Len(replies)].message = None THEN <<"undefined">>
                    ELSE The(replies[Len(replies)].message))

C10_Witness ==
    /\ caught.stage = "generate"
    /\ caught.origin = "call"
    /\ replies[2].message = Some(<<"429 Rate limit exceeded">>)
    /\ \E f \in failures : f.stage = "describe"

\* the generation capability answered without an image reference: no data,
\* empty data, a first entry without url, or an empty url
NoReferenceReply ==
    /\ Len(replies) = 2
    /\ replies[2].kind = "ok"
    /\ \/ replies[2].data = None
       \/ replies[2].data = Some(<<>>)
       \/ replies[2].data = Some(<<[url |-> None]>>)
       \/ replies[2].data = Some(<<[url |-> Some("")]>>)

\* C11: when the generation capability returns a response without an image
\* reference, transformImage fails with the generation-failed error and
\* never returns an empty or absent reference as a success value.
C11_NoReferenceFails ==
    /\ NoReferenceReply =>
        /\ pc = "idle"
        /\ outcome.kind = "threw"
        /\ outcome.message = <<"Failed to transform image:", " ",
                               "Failed to generate image URL">>
    /\ outcome.kind = "returned" =>
        /\ outcome.value \in Urls
        /\ outcome.value # ""

C11_Witness ==
    /\ NoReferenceReply
    /\ replies[2].data = Some(<<[url |-> Some("")]>>)
    /\ call.caller = "route"
    /\ res.status = 500

\* the ids of a catalog response, in order
IdsOf(catalog) == [i \in 1..Len(catalog) |-> catalog[i].id]

\* C12: GET /api/styles always returns exactly five entries with ids lego,
\* anime, ghibli, futuristic, vintage in that order, whatever requests came
\* before, and each of the five ids has a non-empty prompt template.
C12_StylesCatalog ==
    /\ httpReq.route = "GET /api/styles" =>
        /\ res.status = 200
        /\ Len(res.body) = 5
        /\ IdsOf(res.body) = <<"lego", "anime", "ghibli", "futuristic", "vintage">>
    /\ \A id \in {"lego", "anime", "ghibli", "futuristic", "vintage"} :
        /\ IsSome(StylePromptFor(id))
        /\ The(StylePromptFor(id)) # <<>>
        /\ (call.caller # "none" /\ call.style = id) => stylePrompt = StylePromptFor(id)

C12_Witness ==
    /\ httpReq.route = "GET /api/styles"
    /\ res.status = 200
    /\ failures # {}

\* C15: in every execution of transformImage the description capability is
\* called at most once and the generation capability at most once (no retry
\* after a failure), and the generation call is issued only after the
\* description call completed successfully.
C15_SequentialNoRetry ==
    /\ Cardinality(DescribeCalls) <= 1
    /\ Cardinality(GenerateCalls) <= 1
    /\ Len(replies) <= Len(calls)
    /\ pc = "idle" => Len(replies) = Len(calls)
    /\ GenerateCalls # {} =>
        /\ GenerateCalls = {2}
        /\ DescribeCalls = {1}
        /\ Len(replies) >= 1
        /\ replies[1].kind = "ok"
        /\ replies[1].choices # <<>>
        /\ replies[1].choices[1].content # None
        /\ ~BlankDescriptionReply

C15_Witness ==
    /\ Len(calls) = 2
    /\ Len(replies) = 2
    /\ replies[2].kind = "error"
    /\ outcome.kind = "threw"

\* ------------------------------------------------------------------------
\* Record Store properties, continued
\* ------------------------------------------------------------------------
\* C13: no two stored users have the same username.
C13_UsernamesUnique ==
    \A i, j \in 1..Len(users) :
        i # j => users[i].value.username # users[j].value.username

StoreOf(kind) ==
    IF kind = "user" THEN users
    ELSE IF kind = "image" THEN images
    ELSE transformations

CounterOf(kind) ==
    IF kind = "user" THEN userIdCounter
    ELSE IF kind = "image" THEN imageIdCounter
    ELSE transformationIdCounter

\* C16: when create calls of several requests interleave (each create runs
\* to its end in one turn, the turns of different requests in any order),
\* no update is lost: every create got a distinct identifier, every created
\* record is retrievable under its identifier, and each counter is one more
\* than the number of creates of its kind.
C16_NoLostUpdate ==
    \A kind \in Kinds :
        /\ Cardinality(RangeOf(issued[kind])) = Len(issued[kind])
        /\ Len(StoreOf(kind)) = Len(issued[kind])
        /\ CounterOf(kind) = Len(issued[kind]) + 1
        /\ \A id \in RangeOf(issued[kind]) :
            /\ MapHas(StoreOf(kind), id)
            /\ MapGet(StoreOf(kind), id).id = id

C16_Witness ==
    /\ storeRet.op = "createUser"
    /\ Len(issued.user) = 2
    /\ Len(issued.transformation) = 2
    /\ Len(issued.image) = 1
    /\ now = 1
    /\ transformations[1].value.createdAt = 0
    /\ transformations[2].value.createdAt = 1

CreateOpKind ==
    [createUser |-> "user", createImage |-> "image",
     createTransformation |-> "transformation"]

\* C18: records are never updated or deleted: the record a create returned
\* under identifier i is what is stored, every later get(i) of that kind
\* returns it with all fields unchanged, and a create of one kind changes
\* neither the records nor the counter of the other kinds.
C18_RecordsImmutable ==
    /\ [](storeRet.op \in DOMAIN CreateOpKind =>
            MapGet(StoreOf(CreateOpKind[storeRet.op]), storeRet.value.id)
                = storeRet.value)
    /\ [](storeRet.op \in DOMAIN GetOpKind /\ ~GetOfAbsent(storeRet) =>
            storeRet.value = MapGet(StoreOf(GetOpKind[storeRet.op]), storeRet.arg))
    /\ [][\A kind \in Kinds : \A i \in 1..Len(StoreOf(kind)) :
            /\ i <= Len(StoreOf(kind)')
            /\ StoreOf(kind)'[i] = StoreOf(kind)[i]]_vars
    /\ [][/\ users' # users \/ userIdCounter' # userIdCounter =>
                UNCHANGED <<images, transformations, imageIdCounter,
                            transformationIdCounter>>
          /\ images' # images \/ imageIdCounter' # imageIdCounter =>
                UNCHANGED <<users, transformations, userIdCounter,
                            transformationIdCounter>>
          /\ transformations' # transformations
                \/ transformationIdCounter' # transformationIdCounter =>
                UNCHANGED <<users, images, userIdCounter, imageIdCounter>>]_vars

C18_Witness ==
    /\ storeRet.op = "getTransformation"
    /\ storeRet.arg = 1
    /\ ~GetOfAbsent(storeRet)
    /\ storeRet.value.id = 1
    /\ storeRet.value.createdAt = 0
    /\ Len(transformations) = MaxTransformations
    /\ Len(users) = MaxUsers
    /\ now = 1

\* ------------------------------------------------------------------------
\* HTTP Surface properties, continued
\* ------------------------------------------------------------------------
\* C14: handling GET /api/styles, POST /api/upload and POST /api/transform,
\* whether they succeed or fail, leaves the Record Store unchanged: every
\* step in which a request arrives, a handler advances or an external call
\* is issued or answered keeps the three maps and the three identifier
\* counters as they were.
C14_RoutesLeaveStore ==
    [][(httpReq' # httpReq \/ pc' # pc \/ calls' # calls \/ replies' # replies)
        => UNCHANGED <<storeVars, issued>>]_vars

C14_Witness ==
    /\ users # <<>> /\ images # <<>> /\ Len(transformations) = 2
    /\ TransformRequest
    /\ res.status = 200
    /\ Len(calls) = 2

\* ------------------------------------------------------------------------
\* Upload validation properties
\* ------------------------------------------------------------------------
TooLargeAndWrongType(file) ==
    file.size > FiveMiB /\ file.mimetype \notin JpegPngWebp

DropOf(file) == "file" \in DOMAIN dropped /\ dropped.file = file

ParseOf(file) == parsed.input = Some(file)

SizeReasons ==
    {<<"File too large">>, <<"Image size should not exceed 5MB">>}

TypeReasons ==
    {<<"Only image files are allowed">>,
     <<"Please upload a valid image (JPG, PNG, WEBP)">>}

\* C17 as stated: upload validation checks size before MIME type, so a
\* payload that both exceeds 5 MiB and has a disallowed MIME type is
\* rejected with the size reason, in the server's upload middleware, in the
\* client's validateFile and in imageUploadSchema.
C17_SizeReasonFirst ==
    \A file \in FileInputs : TooLargeAndWrongType(file) =>
        /\ UploadOf(file) => res.error.message \in SizeReasons
        /\ DropOf(file) => dropped.error \in {Some(m) : m \in SizeReasons}
        /\ ParseOf(file) => parsed.issues[1] \in SizeReasons

\* C17: the validators that run on an upload check the MIME type before the
\* size: a payload that both exceeds 5 MiB and has a disallowed MIME type
\* is rejected with the MIME-type reason by the server's upload middleware
\* and by the client's validateFile, and the size reason is given only to
\* a payload of an allowed type; imageUploadSchema alone reports the size
\* issue first, followed by the MIME-type issue.
C17_TypeReasonFirst ==
    \A file \in FileInputs :
        /\ TooLargeAndWrongType(file) =>
            /\ UploadOf(file) =>
                    res.status # 200 /\ res.error.message \in TypeReasons
            /\ DropOf(file) =>
                    /\ ~dropped.mutate
                    /\ dropped.error
                        = Some(<<"Please upload a valid image (JPG, PNG, WEBP)">>)
            /\ ParseOf(file) =>
                    parsed.issues
                        = << <<"Image size should not exceed 5MB">>,
                             <<"Please upload a valid image (JPG, PNG, WEBP)">> >>
        /\ (file.size > FiveMiB /\ file.mimetype \in JpegPngWebp) =>
            /\ UploadOf(file) =>
                    res.status # 200 /\ res.error.message = <<"File too large">>
            /\ DropOf(file) =>
                    dropped.error = Some(<<"Image size should not exceed 5MB">>)
            /\ ParseOf(file) =>
                    parsed.issues = << <<"Image size should not exceed 5MB">> >>

C17_Witness ==
    \E file \in FileInputs :
        /\ file.size = 6 * 1024 * 1024
        /\ file.mimetype = <<"image", "gif">>
        /\ UploadOf(file) /\ res.status = 500
        /\ DropOf(file) /\ ~dropped.mutate
        /\ ParseOf(file) /\ Len(parsed.issues) = 2

\* C19 as stated: a file of exactly 5 MiB with an allowed MIME type is
\* accepted by every upload size validator: the server's upload limit, the
\* client's validateFile and the shared imageUploadSchema.
C19_ExactLimitAccepted ==
    \A file \in FileInputs :
        (file.size = FiveMiB /\ file.mimetype \in JpegPngWebp) =>
            /\ UploadOf(file) => res.status = 200
            /\ DropOf(file) => dropped.mutate /\ dropped.error = None
            /\ ParseOf(file) => parsed.success

\* ------------------------------------------------------------------------
\* Home page properties
\* ------------------------------------------------------------------------
\* C20 as stated: every error raised through handleError stays displayed
\* until its own auto-hide timer fires: while the timer of the error raised
\* last is pending, that error is the one displayed.
C20_ErrorStaysUntilOwnTimer ==
    timers # <<>> => Displayed = Some(timers[Len(timers)])

\* ------------------------------------------------------------------------
\* Transformation workspace properties
\* ------------------------------------------------------------------------
\* C21 as stated: whenever a transformed image is displayed, the style
\* shown in the style badge and used in the download filename is the style
\* that was sent in the transform request that produced that image.
C21_BadgeIsStyleOfImage ==
    /\ IsSome(transformedImageUrl) =>
            Badge = Some(<<Capitalize(The(producedBy)), " Style">>)
    /\ IsSome(download) =>
            The(download).download[2] = The(The(download).producedBy)

====
